---- MODULE Spec2Model ----
(***************************************************************************)
(* Model of src/rps/rock_paper_scissors.py: the move catalog, the input    *)
(* classifier, the round resolver and the match controller, driven by the  *)
(* start_program / play_game / play_round loops.                           *)
(*                                                                         *)
(* Python strings that the program inspects character by character (the    *)
(* typed input, move names, aliases, command names) are sequences of       *)
(* one-character strings.  Strings that are only compared for equality     *)
(* (the "user" winner tag, the opponent's display name) are TLA+ strings.  *)
(***************************************************************************)
EXTENDS Integers, Sequences, FiniteSets, TLC

VARIABLES
    pc,             \* position of the program in start_program/play_game/play_round
    game,           \* the dict returned by create_game and mutated by process_round
    moves,          \* the module global MOVES as the running process holds it
    opponent_name,  \* SETTINGS["opponent_name"]
    raw_input,      \* what input("Your move: ") returned in play_round, as typed
    user_input,     \* play_round's local user_input (after .lower())
    input_type,     \* play_round's local input_type
    user_move,      \* process_moves' user_move after alias expansion
    opponent_move,  \* play_round's local opponent_move
    rounds,         \* history: number of process_round calls on this game dict
    ties            \* history: how many of those calls resolved to no winner

vars == <<pc, game, moves, opponent_name, raw_input, user_input, input_type,
          user_move, opponent_move, rounds, ties>>

-----------------------------------------------------------------------------
(* Bounds of the model *)

\* rounds of a match among which tied rounds are explored (a match of ties
\* never ends)
MaxRounds == 6
\* whitespace characters put in front of or behind a typed token
MaxPad == 1
\* inputs typed at one "Enter any key to continue" prompt ("help" re-prompts)
MaxContinue == 2

-----------------------------------------------------------------------------
(* Python values *)

\* Python's None; kept apart from every string the program uses
None == "None"

\* truth value of an Optional[str] as tested by `while not game["grand_winner"]`
Truthy(v) == v /= None /\ v /= ""

\* `x in list`
In(x, list) == \E i \in 1..Len(list) : list[i] = x

UpperLetters == <<"A","B","C","D","E","F","G","H","I","J","K","L","M",
                  "N","O","P","Q","R","S","T","U","V","W","X","Y","Z">>
LowerLetters == <<"a","b","c","d","e","f","g","h","i","j","k","l","m",
                  "n","o","p","q","r","s","t","u","v","w","x","y","z">>

\* str.lower() on one character
LowerChar(c) ==
    IF \E i \in 1..26 : UpperLetters[i] = c
    THEN LowerLetters[CHOOSE i \in 1..26 : UpperLetters[i] = c]
    ELSE c

\* str.upper() on one character (used to build typed inputs only)
UpperChar(c) ==
    IF \E i \in 1..26 : LowerLetters[i] = c
    THEN UpperLetters[CHOOSE i \in 1..26 : LowerLetters[i] = c]
    ELSE c

\* identity in place of str.lower()
lower_nofold(s) == s

\* str.lower()
lower(s) == [i \in 1..Len(s) |-> LowerChar(s[i])]

-----------------------------------------------------------------------------
(* Module constants of the program *)

rock    == <<"r","o","c","k">>
paper   == <<"p","a","p","e","r">>
scissor == <<"s","c","i","s","s","o","r">>
spock   == <<"s","p","o","c","k">>
lizard  == <<"l","i","z","a","r","d">>

help == <<"h","e","l","p">>
quit == <<"q","u","i","t">>

\* insertion order of the keys of MOVES
MoveOrder == <<rock, paper, scissor, spock, lizard>>

\* a catalog in which rock no longer beats lizard
MOVES_rock_loses_lizard ==
    (rock    :> [alias |-> <<"r">>, beats |-> <<scissor>>]) @@
    (paper   :> [alias |-> <<"p">>, beats |-> <<rock, spock>>]) @@
    (scissor :> [alias |-> <<"s">>, beats |-> <<paper, lizard>>]) @@
    (spock   :> [alias |-> <<"k">>, beats |-> <<rock, scissor>>]) @@
    (lizard  :> [alias |-> <<"l">>, beats |-> <<paper, spock>>])

MOVES ==
    (rock    :> [alias |-> <<"r">>, beats |-> <<scissor, lizard>>]) @@
    (paper   :> [alias |-> <<"p">>, beats |-> <<rock, spock>>]) @@
    (scissor :> [alias |-> <<"s">>, beats |-> <<paper, lizard>>]) @@
    (spock   :> [alias |-> <<"k">>, beats |-> <<rock, scissor>>]) @@
    (lizard  :> [alias |-> <<"l">>, beats |-> <<paper, spock>>])

\* COMMANDS, as the sequence of its (key, value) items
COMMANDS == << <<help, <<"h">> >>, <<quit, <<"q","!">> >> >>

\* SETTINGS["opponent_name"]
SETTINGS_opponent_name == "Monty"

-----------------------------------------------------------------------------
(* Input classifier *)

\* [*MOVES.keys(), *(move["alias"] for move in MOVES.values())]
MoveInputs == {MoveOrder[i] : i \in 1..Len(MoveOrder)} \cup
              {moves[MoveOrder[i]].alias : i \in 1..Len(MoveOrder)}

\* [*COMMANDS.keys(), *(alias for alias in COMMANDS.values())]
CommandInputs == {COMMANDS[i][1] : i \in 1..Len(COMMANDS)} \cup
                 {COMMANDS[i][2] : i \in 1..Len(COMMANDS)}

is_valid_input(input_str) == input_str \in (MoveInputs \cup CommandInputs)

get_input_type(input_str) ==
    IF ~ is_valid_input(input_str) THEN "invalid"
    ELSE IF input_str \in CommandInputs THEN "command"
    ELSE "move"

\* an expansion that returns the move that follows the aliased one
expand_move_abbreviation_shifted(alias) ==
    IF \E i \in 1..Len(MoveOrder) : moves[MoveOrder[i]].alias = alias
    THEN LET i == CHOOSE j \in 1..Len(MoveOrder) : moves[MoveOrder[j]].alias = alias
         IN  MoveOrder[(i % Len(MoveOrder)) + 1]
    ELSE alias

\* the first move, in catalog order, whose alias is the argument; else the argument
expand_move_abbreviation(alias) ==
    IF \E i \in 1..Len(MoveOrder) : moves[MoveOrder[i]].alias = alias
    THEN MoveOrder[CHOOSE i \in 1..Len(MoveOrder) :
                      /\ moves[MoveOrder[i]].alias = alias
                      /\ \A j \in 1..(i-1) : moves[MoveOrder[j]].alias /= alias]
    ELSE alias

\* the first lines of process_moves: the move handed to process_round
process_moves_user_move(um) ==
    IF Len(um) = 1 THEN expand_move_abbreviation(um) ELSE um

-----------------------------------------------------------------------------
(* Round resolver and match controller (the closures of process_round) *)

\* a resolver that lacks the second test
determine_round_winner_user_only(um, om) ==
    IF In(om, moves[um].beats) THEN "user" ELSE None

\* a resolver whose two tests name the wrong sides
determine_round_winner_swapped(um, om) ==
    LET w1 == IF In(om, moves[um].beats) THEN opponent_name ELSE None
    IN  IF In(um, moves[om].beats) THEN "user" ELSE w1

\* two successive `if`s: the second overrides the first
determine_round_winner(um, om) ==
    LET w1 == IF In(om, moves[um].beats) THEN "user" ELSE None
    IN  IF In(um, moves[om].beats) THEN opponent_name ELSE w1

\* a threshold of four points
determine_grand_winner_late(g) ==
    IF g.user_score > 3 THEN "user"
    ELSE IF g.opponent_score > 3 THEN opponent_name
    ELSE None

\* a winner declared only outside a tiebreaker
determine_grand_winner_not_in_tiebreaker(g) ==
    IF g.tiebreaker_round THEN None
    ELSE IF g.user_score > 2 THEN "user"
    ELSE IF g.opponent_score > 2 THEN opponent_name
    ELSE None

determine_grand_winner(g) ==
    IF g.user_score > 2 THEN "user"
    ELSE IF g.opponent_score > 2 THEN opponent_name
    ELSE None

\* a scorer that also pays the user for a tied round
increment_score_tie_pays(g, winner) ==
    LET g1 == IF winner = "user" \/ winner = None
              THEN [g EXCEPT !.user_score = @ + 1] ELSE g
    IN  IF winner = opponent_name
        THEN [g1 EXCEPT !.opponent_score = @ + 1] ELSE g1

\* two successive `if`s on the winner tag
increment_score(g, winner) ==
    LET g1 == IF winner = "user"
              THEN [g EXCEPT !.user_score = @ + 1] ELSE g
    IN  IF winner = opponent_name
        THEN [g1 EXCEPT !.opponent_score = @ + 1] ELSE g1

\* a flag that, once raised, stays raised
tiebreaker_round_latched(g) ==
    g.tiebreaker_round \/ (g.user_score = 2 /\ g.opponent_score = 2)

\* the value assigned to game["tiebreaker_round"]
tiebreaker_round(g) == g.user_score = 2 /\ g.opponent_score = 2

create_game ==
    [current_round    |-> 1,
     tiebreaker_round |-> FALSE,
     user_score       |-> 0,
     opponent_score   |-> 0,
     round_winner     |-> None,
     grand_winner     |-> None]

\* MOVES[user_move] or MOVES[opponent_move] raises KeyError
RaisesKeyError(um, om) == um \notin DOMAIN moves \/ om \notin DOMAIN moves

\* the dict as the raise leaves it: only the round counter has moved
process_round_raised(g) == [g EXCEPT !.current_round = @ + 1]

\* a call that counts a round only when somebody won it
process_round_counts_decided(g, um, om) ==
    LET winner == determine_round_winner(um, om)
        g1     == IF winner = None THEN g
                  ELSE [g EXCEPT !.current_round = @ + 1]
        g2     == increment_score(g1, winner)
        g3     == [g2 EXCEPT !.round_winner = winner]
        g4     == [g3 EXCEPT !.grand_winner = determine_grand_winner(g3)]
    IN  [g4 EXCEPT !.tiebreaker_round = tiebreaker_round(g4)]

\* the dict after a process_round call that returns
process_round(g, um, om) ==
    LET g1     == [g EXCEPT !.current_round = @ + 1]
        winner == determine_round_winner(um, om)
        g2     == increment_score(g1, winner)
        g3     == [g2 EXCEPT !.round_winner = winner]
        g4     == [g3 EXCEPT !.grand_winner = determine_grand_winner(g3)]
    IN  [g4 EXCEPT !.tiebreaker_round = tiebreaker_round(g4)]

-----------------------------------------------------------------------------
(* What the user may type *)

\* a local variable that has not been assigned yet
Unbound == <<"<unbound>">>

Pad(n) == [i \in 1..n |-> " "]
upper(s) == [i \in 1..Len(s) |-> UpperChar(s[i])]
capitalize(s) == [i \in 1..Len(s) |-> IF i = 1 THEN UpperChar(s[i]) ELSE s[i]]

banana == <<"b","a","n","a","n","a">>

\* the words a user is offered, a word and a letter that are not offered,
\* and the empty line
BaseTokens ==
    {MoveOrder[i] : i \in 1..Len(MoveOrder)} \cup
    {MOVES[MoveOrder[i]].alias : i \in 1..Len(MoveOrder)} \cup
    CommandInputs \cup {banana, <<"x">>, <<>>}

\* each of them as is, in capitals, capitalised, and with blanks around it
TypedTokens ==
    BaseTokens \cup {upper(t) : t \in BaseTokens}
               \cup {capitalize(t) : t \in BaseTokens}
               \cup {Pad(n) \o t : n \in 1..MaxPad, t \in BaseTokens}
               \cup {t \o Pad(n) : n \in 1..MaxPad, t \in BaseTokens}

\* what is typed at an "Enter any key to continue" prompt
ContinueTokens == {<<>>, <<"H">>, <<"q","!">>}
ContinueInputs == UNION {[1..n -> ContinueTokens] : n \in 1..MaxContinue}

\* prompt_enter_to_continue fed the lines `inputs`: "return" when it returns
\* having read them all, "exit" when process_command ends the program,
\* "unread" when it returns before the last line, "blocked" when it wants more
RECURSIVE prompt_enter_to_continue(_, _)
prompt_enter_to_continue(inputs, allow_command) ==
    IF inputs = <<>> THEN "blocked"
    ELSE LET typed == lower(Head(inputs)) IN
         IF allow_command /\ get_input_type(typed) = "command"
         THEN IF typed \in {help, <<"h">>}
              THEN prompt_enter_to_continue(Tail(inputs), TRUE)
              ELSE "exit"
         ELSE IF Tail(inputs) = <<>> THEN "return" ELSE "unread"

\* a loop whose test never fails
while_not_grand_winner_always(g) == "play_round"

\* the test of play_game's while loop, and where the program waits next
while_not_grand_winner(g) ==
    IF ~ Truthy(g.grand_winner) THEN "play_round" ELSE "game_results"

-----------------------------------------------------------------------------
(* The program *)

Locals == <<raw_input, user_input, input_type, user_move, opponent_move>>
Config == <<moves, opponent_name>>
History == <<rounds, ties>>

UnbindLocals ==
    /\ raw_input' = Unbound
    /\ user_input' = Unbound
    /\ input_type' = "unbound"
    /\ user_move' = Unbound
    /\ opponent_move' = Unbound

\* a prompt_enter_to_continue at position `from`, returning to position `to`
Continue(from, to, allow_command) ==
    /\ pc = from
    /\ \E inputs \in ContinueInputs :
         LET r == prompt_enter_to_continue(inputs, allow_command) IN
         /\ r \in {"return", "exit"}
         /\ pc' = IF r = "exit" THEN "exited" ELSE to

Init ==
    /\ pc = "introduction"
    /\ game = create_game
    /\ moves = MOVES
    /\ opponent_name = SETTINGS_opponent_name
    /\ raw_input = Unbound
    /\ user_input = Unbound
    /\ input_type = "unbound"
    /\ user_move = Unbound
    /\ opponent_move = Unbound
    /\ rounds = 0
    /\ ties = 0

\* display_introduction(): greeting, prompt_enter_to_continue(False), help
DisplayIntroduction ==
    /\ Continue("introduction", "introduction_help", FALSE)
    /\ UNCHANGED <<game, Config, Locals, History>>

\* ... and its closing prompt_enter_to_continue(), then into play_game
DisplayIntroductionHelp ==
    /\ Continue("introduction_help", "play_game", TRUE)
    /\ UNCHANGED <<game, Config, Locals, History>>

\* play_game up to its first wait: create_game and the first loop test
PlayGame ==
    /\ pc = "play_game"
    /\ game' = create_game
    /\ pc' = while_not_grand_winner(create_game)
    /\ rounds' = 0
    /\ ties' = 0
    /\ UNCHANGED <<Config, Locals>>

\* the rounds the model explores: a round somebody wins while both scores
\* are below 3 (a match holds few of them), any other round only among the
\* first MaxRounds of a match
WithinBound(winner) ==
    \/ rounds < MaxRounds
    \/ (winner /= None /\ game.user_score < 3 /\ game.opponent_score < 3)

\* play_round reads a move: process_moves, process_round, the results shown
PlayRoundMove ==
    /\ pc = "play_round"
    /\ \E typed \in TypedTokens, om \in {MoveOrder[i] : i \in 1..Len(MoveOrder)} :
         LET ui == lower(typed)
             um == process_moves_user_move(ui)
         IN  /\ raw_input' = typed
             /\ opponent_move' = om
             /\ get_input_type(ui) = "move"
             /\ WithinBound(determine_round_winner(um, om))
             /\ user_input' = ui
             /\ input_type' = get_input_type(ui)
             /\ user_move' = um
             /\ game' = process_round(game, um, om)
             /\ rounds' = rounds + 1
             /\ ties' = IF determine_round_winner(um, om) = None
                        THEN ties + 1 ELSE ties
    /\ pc' = "round_results"
    /\ UNCHANGED Config

\* display_round_results' prompt, the return to play_game and its loop test
DisplayRoundResults ==
    /\ Continue("round_results", while_not_grand_winner(game), TRUE)
    /\ UnbindLocals
    /\ UNCHANGED <<game, Config, History>>

\* play_round reads a command: process_command shows the help or exits
PlayRoundCommand ==
    /\ pc = "play_round"
    /\ \E typed \in TypedTokens :
         LET ui == lower(typed) IN
         /\ get_input_type(ui) = "command"
         /\ raw_input' = typed
         /\ user_input' = ui
         /\ input_type' = get_input_type(ui)
         /\ pc' = IF ui \in {help, <<"h">>} THEN "help" ELSE "exited"
    /\ UNCHANGED <<game, Config, user_move, opponent_move, History>>

\* process_command's prompt after the help, then play_round's next iteration
DisplayHelp ==
    /\ Continue("help", "play_round", TRUE)
    /\ UnbindLocals
    /\ UNCHANGED <<game, Config, History>>

\* an invalid line that uses up a round
PlayRoundInvalid_counts_round ==
    /\ pc = "play_round"
    /\ \E typed \in TypedTokens :
         LET ui == lower(typed) IN
         /\ get_input_type(ui) = "invalid"
         /\ raw_input' = typed
         /\ user_input' = ui
         /\ input_type' = get_input_type(ui)
    /\ pc' = "invalid"
    /\ game' = [game EXCEPT !.current_round = @ + 1]
    /\ UNCHANGED <<Config, user_move, opponent_move, History>>

\* play_round reads anything else: display_invalid_input_message
PlayRoundInvalid ==
    /\ pc = "play_round"
    /\ \E typed \in TypedTokens :
         LET ui == lower(typed) IN
         /\ get_input_type(ui) = "invalid"
         /\ raw_input' = typed
         /\ user_input' = ui
         /\ input_type' = get_input_type(ui)
    /\ pc' = "invalid"
    /\ UNCHANGED <<game, Config, user_move, opponent_move, History>>

\* the prompt after the error message, then play_round's next iteration
DisplayInvalidInput ==
    /\ Continue("invalid", "play_round", TRUE)
    /\ UnbindLocals
    /\ UNCHANGED <<game, Config, History>>

\* display_game_results' prompt, then start_program's "play again" prompt
DisplayGameResults ==
    /\ Continue("game_results", "play_again", TRUE)
    /\ UNCHANGED <<game, Config, Locals, History>>

PlayAgain ==
    /\ Continue("play_again", "welcome_back", TRUE)
    /\ UNCHANGED <<game, Config, Locals, History>>

\* the "welcome back" prompt, then start_program's loop calls play_game again
WelcomeBack ==
    /\ Continue("welcome_back", "play_game", TRUE)
    /\ UNCHANGED <<game, Config, Locals, History>>

Next ==
    \/ DisplayIntroduction
    \/ DisplayIntroductionHelp
    \/ PlayGame
    \/ PlayRoundMove
    \/ DisplayRoundResults
    \/ PlayRoundCommand
    \/ DisplayHelp
    \/ PlayRoundInvalid
    \/ DisplayInvalidInput
    \/ DisplayGameResults
    \/ PlayAgain
    \/ WelcomeBack

Spec == Init /\ [][Next]_vars

-----------------------------------------------------------------------------
(* process_round called by other code than play_round *)

\* a move name that is not a key of MOVES
NonCatalogMove == banana

\* process_round(game, um, om) called on the game dict as it stands, whatever
\* game["grand_winner"] holds; a KeyError ends the program
ProcessRoundCall ==
    /\ pc \notin {"introduction", "introduction_help", "play_game",
                  "exited", "crashed"}
    /\ rounds < MaxRounds
    /\ \E um, om \in DOMAIN moves \cup {NonCatalogMove} :
         IF RaisesKeyError(um, om)
         THEN /\ game' = process_round_raised(game)
              /\ pc' = "crashed"
              /\ ties' = ties
         ELSE /\ game' = process_round(game, um, om)
              /\ pc' = pc
              /\ ties' = IF determine_round_winner(um, om) = None
                         THEN ties + 1 ELSE ties
    /\ rounds' = rounds + 1
    /\ UNCHANGED <<Config, Locals>>

NextDirect == Next \/ ProcessRoundCall

SpecDirect == Init /\ [][NextDirect]_vars

-----------------------------------------------------------------------------
(* The program started with a catalog that is not the one in the source *)

\* MOVES with the rock-lizard pair decided both ways
MOVES_lizard_beats_rock ==
    [MOVES EXCEPT ![lizard].beats = <<paper, spock, rock>>]

Catalogs == {MOVES, MOVES_rock_loses_lizard, MOVES_lizard_beats_rock}

InitCatalog ==
    /\ pc = "introduction"
    /\ game = create_game
    /\ moves \in Catalogs
    /\ opponent_name = SETTINGS_opponent_name
    /\ raw_input = Unbound
    /\ user_input = Unbound
    /\ input_type = "unbound"
    /\ user_move = Unbound
    /\ opponent_move = Unbound
    /\ rounds = 0
    /\ ties = 0

SpecCatalog == InitCatalog /\ [][Next]_vars

-----------------------------------------------------------------------------
(* The program started with another SETTINGS["opponent_name"] *)

\* the name in the source, the user's own tag, and the empty name
OpponentNames == {SETTINGS_opponent_name, "user", ""}

InitNames ==
    /\ pc = "introduction"
    /\ game = create_game
    /\ moves = MOVES
    /\ opponent_name \in OpponentNames
    /\ raw_input = Unbound
    /\ user_input = Unbound
    /\ input_type = "unbound"
    /\ user_move = Unbound
    /\ opponent_move = Unbound
    /\ rounds = 0
    /\ ties = 0

SpecNames == InitNames /\ [][Next]_vars

-----------------------------------------------------------------------------
(* The program with a user who keeps playing *)

\* a step that does not leave the program
NextPlaying == Next /\ pc' /= "exited"

\* play_round resolves a round that somebody wins
DecidedRound ==
    pc = "play_round" /\ PlayRoundMove /\ game'.round_winner /= None

\* a prompt answered with something else than a quit command
PromptAnswered ==
    /\ pc \notin {"play_round", "play_game", "exited"}
    /\ NextPlaying

\* the user does not quit, answers every prompt, and among the lines typed
\* at "Your move:" there is, again and again, a move that wins or loses
SpecFair ==
    /\ Init
    /\ [][NextPlaying]_vars
    /\ WF_vars(PromptAnswered)
    /\ WF_vars(PlayGame)
    /\ SF_vars(DecidedRound)

-----------------------------------------------------------------------------
(* Vocabulary of the properties *)

CanonicalMoves == {rock, paper, scissor, spock, lizard}
MoveAliases == {<<"r">>, <<"p">>, <<"s">>, <<"k">>, <<"l">>}

\* the move a full name or a single-letter alias stands for
MoveNamed(token) ==
    CASE token \in {rock, <<"r">>}    -> rock
      [] token \in {paper, <<"p">>}   -> paper
      [] token \in {scissor, <<"s">>} -> scissor
      [] token \in {spock, <<"k">>}   -> spock
      [] token \in {lizard, <<"l">>}  -> lizard

\* a beats b in catalog c
Beats(c, a, b) == In(b, c[a].beats)

\* c is a tournament over the five moves
IsTournament(c) ==
    /\ DOMAIN c = CanonicalMoves
    /\ \A m \in CanonicalMoves :
         /\ ~ Beats(c, m, m)
         /\ \A i \in 1..Len(c[m].beats) : c[m].beats[i] \in CanonicalMoves
         /\ Cardinality({x \in CanonicalMoves \ {m} : Beats(c, m, x)}) = 2
         /\ Cardinality({x \in CanonicalMoves \ {m} : Beats(c, x, m)}) = 2
    /\ \A a, b \in CanonicalMoves :
         a /= b => (Beats(c, a, b) <=> ~ Beats(c, b, a))

\* two tokens that differ in letter case at most
SameButCase(s, t) ==
    /\ Len(s) = Len(t)
    /\ \A i \in 1..Len(s) : LowerChar(s[i]) = LowerChar(t[i])

\* s without its leading and trailing blanks
RECURSIVE Trim(_)
Trim(s) ==
    IF s = <<>> THEN s
    ELSE IF Head(s) = " " THEN Trim(Tail(s))
    ELSE IF s[Len(s)] = " " THEN Trim(SubSeq(s, 1, Len(s) - 1))
    ELSE s

\* play_round has read and classified a line
InputClassified == input_type /= "unbound"

\* process_round has just returned to play_round's process_moves
RoundResolved == pc = "round_results"

-----------------------------------------------------------------------------
(* Properties *)

\* C1: in every state of a match grand_winner is "user" iff user_score >= 3,
\* the opponent iff opponent_score >= 3, and unset iff both scores are below
\* 3; so it is set by the first round that takes a score to 3 and in no
\* earlier state.
C1_GrandWinnerIffThreshold ==
    /\ (game.grand_winner = "user") <=> (game.user_score >= 3)
    /\ (game.grand_winner = opponent_name) <=> (game.opponent_score >= 3)
    /\ (game.grand_winner = None) <=>
           (game.user_score < 3 /\ game.opponent_score < 3)

\* a round has just taken the opponent from 2 to 3 against a user on 2
C1_Witness ==
    /\ RoundResolved
    /\ game.round_winner = opponent_name
    /\ game.opponent_score = 3
    /\ game.user_score = 2
    /\ game.grand_winner = opponent_name

\* C2: a process_round call made on a state whose grand_winner is set is
\* rejected and changes no field of the match state.
C2_TerminalCallChangesNothing ==
    [][(game.grand_winner /= None /\ rounds' = rounds + 1) => game' = game]_vars

\* C3: in every state, the initial one included, tiebreaker_round is true
\* iff user_score = 2 and opponent_score = 2.
C3_TiebreakerIffTwoAll ==
    game.tiebreaker_round <=> (game.user_score = 2 /\ game.opponent_score = 2)

\* a tied round played at 2-2 has left the flag up
C3_Witness ==
    /\ RoundResolved
    /\ game.round_winner = None
    /\ game.user_score = 2
    /\ game.opponent_score = 2
    /\ game.current_round >= 6
    /\ game.tiebreaker_round

\* C4: after N resolved rounds of a match the two scores add up to at most
\* N, and to exactly N iff none of the N rounds was tied.
C4_ScoreSumBoundedByRounds ==
    /\ game.user_score + game.opponent_score <= rounds
    /\ (game.user_score + game.opponent_score = rounds) <=> (ties = 0)

\* four rounds, one of them tied, three points shared out
C4_Witness ==
    /\ RoundResolved
    /\ rounds = 4
    /\ ties = 1
    /\ game.user_score + game.opponent_score = 3

\* C5: the resolver returns no winner for (m, m), whatever the move m, and
\* returns no winner only for two equal moves.
C5_TieIffEqualMoves ==
    /\ \A m \in CanonicalMoves : determine_round_winner(m, m) = None
    /\ \A a, b \in CanonicalMoves :
         determine_round_winner(a, b) = None => a = b
    /\ RoundResolved =>
         ((game.round_winner = None) <=> (user_move = opponent_move))

\* lizard, typed as its alias, met lizard
C5_Witness ==
    /\ RoundResolved
    /\ user_input = <<"l">>
    /\ user_move = lizard
    /\ opponent_move = lizard
    /\ game.round_winner = None

\* C6: for two distinct moves a and b exactly one of resolve(a, b) and
\* resolve(b, a) is a win of the user, and resolve(a, b) is a win of the
\* user iff resolve(b, a) is a win of the opponent.
C6_ResolverAntisymmetric ==
    /\ \A a, b \in CanonicalMoves :
         a /= b =>
           /\ (determine_round_winner(a, b) = "user") <=>
                  (determine_round_winner(b, a) /= "user")
           /\ (determine_round_winner(a, b) = "user") <=>
                  (determine_round_winner(b, a) = opponent_name)
    /\ (RoundResolved /\ user_move /= opponent_move) =>
           /\ (game.round_winner = "user") <=>
                  (determine_round_winner(opponent_move, user_move) /= "user")
           /\ (game.round_winner = "user") <=>
                  (determine_round_winner(opponent_move, user_move)
                       = opponent_name)

\* the user's spock lost to lizard; lizard against spock is the user's win
C6_Witness ==
    /\ RoundResolved
    /\ user_move = spock
    /\ opponent_move = lizard
    /\ game.round_winner = opponent_name
    /\ determine_round_winner(lizard, spock) = "user"

\* C7: the catalog is a tournament over rock, paper, scissor, spock and
\* lizard: no move beats itself, each beats exactly two others and is
\* beaten by the other two, and each pair is decided in exactly one
\* direction.
C7_CatalogIsTournament == IsTournament(moves)

\* rounds are being resolved against the five-move catalog
C7_Witness ==
    /\ RoundResolved
    /\ Cardinality(DOMAIN moves) = 5
    /\ Beats(moves, user_move, opponent_move)
    /\ game.round_winner = "user"

\* C8: a catalog that is not a tournament stops the program at startup, so
\* no round is ever resolved against such a catalog.
C8_NoRoundOnBadCatalog ==
    ~ IsTournament(moves) =>
        (rounds = 0 /\ pc \notin {"play_round", "round_results"})

\* C9: a classified token is a move exactly when it is one of the five
\* names or five aliases, the move handed on being the one the name or
\* alias stands for; the command tokens are not moves.
C9_MoveIffNameOrAlias ==
    InputClassified =>
        /\ (input_type = "move") <=>
               (user_input \in CanonicalMoves \cup MoveAliases)
        /\ (input_type = "move") => (user_move = MoveNamed(user_input))
        /\ (user_input \in {help, <<"h">>, quit, <<"q","!">>}) =>
               (input_type /= "move")

\* the alias k went on to the resolver as spock
C9_Witness ==
    /\ RoundResolved
    /\ user_input = <<"k">>
    /\ input_type = "move"
    /\ user_move = spock

\* C10 as stated: a typed line that differs from a name or alias only in
\* letter case or in blanks around it is classified as that move.
C10_FoldsCaseAndTrims ==
    InputClassified =>
        \A n \in CanonicalMoves \cup MoveAliases :
            SameButCase(Trim(raw_input), n) =>
                (input_type = "move" /\ user_move = MoveNamed(n))

\* C10 amended: a typed line that differs from a name or alias only in
\* letter case is classified as that move; a line with a blank in front of
\* it or behind it is not trimmed and is classified invalid.
C10_FoldsCaseOnly ==
    InputClassified =>
        /\ \A n \in CanonicalMoves \cup MoveAliases :
               SameButCase(raw_input, n) =>
                   (input_type = "move" /\ user_move = MoveNamed(n))
        /\ (raw_input /= Trim(raw_input)) => (input_type = "invalid")

\* SPOCK in capitals was taken for spock
C10_Witness ==
    /\ RoundResolved
    /\ raw_input = <<"S","P","O","C","K">>
    /\ input_type = "move"
    /\ user_move = spock

\* C11: in every state of a match played by play_game both scores are
\* integers from 0 to 3, and they are never both 3.
C11_ScoresWithinThreshold ==
    /\ game.user_score \in 0..3
    /\ game.opponent_score \in 0..3
    /\ ~ (game.user_score = 3 /\ game.opponent_score = 3)

\* the user has reached 3 against an opponent on 2 and the loop has ended
C11_Witness ==
    /\ pc = "game_results"
    /\ game.user_score = 3
    /\ game.opponent_score = 2
    /\ game.grand_winner = "user"

\* the dict after the rounds that `winners` names one by one, each played
\* with a pair of moves that resolves to that winner, from a fresh dict
RECURSIVE AfterOutcomes(_)
AfterOutcomes(winners) ==
    IF winners = <<>> THEN create_game
    ELSE LET w  == winners[Len(winners)]
             um == IF w = "user" THEN rock ELSE IF w = None THEN spock ELSE paper
             om == IF w = "user" THEN scissor ELSE IF w = None THEN spock ELSE lizard
         IN  process_round(AfterOutcomes(SubSeq(winners, 1, Len(winners) - 1)),
                           um, om)

\* C12: a round played at 2-2 with the tiebreaker flag up either is tied
\* and leaves scores, flag and grand_winner as they are, or ends the match
\* with its winner as grand_winner at 3 points; user, user, opponent,
\* opponent leads to (2, 2, flag up, no grand winner) and one more win of
\* the user to (3, 2, grand winner user).
C12_TiebreakerKeepsThreshold ==
    [][/\ (/\ game.user_score = 2 /\ game.opponent_score = 2
           /\ game.tiebreaker_round /\ game.grand_winner = None
           /\ rounds' = rounds + 1)
          => IF game'.round_winner = None
             THEN /\ game'.user_score = 2 /\ game'.opponent_score = 2
                  /\ game'.tiebreaker_round
                  /\ game'.grand_winner = None
             ELSE /\ game'.grand_winner = game'.round_winner
                  /\ ~ game'.tiebreaker_round
                  /\ game'.user_score + game'.opponent_score = 5
                  /\ (game'.round_winner = "user") <=> (game'.user_score = 3)
                  /\ (game'.round_winner = opponent_name)
                         <=> (game'.opponent_score = 3)
       /\ LET g4 == AfterOutcomes(<<"user", "user", opponent_name, opponent_name>>)
              g5 == AfterOutcomes(<<"user", "user", opponent_name, opponent_name,
                                    "user">>)
          IN  /\ g4.user_score = 2 /\ g4.opponent_score = 2
              /\ g4.tiebreaker_round /\ g4.grand_winner = None
              /\ g5.user_score = 3 /\ g5.opponent_score = 2
              /\ g5.grand_winner = "user"
      ]_vars

\* the user's third point, won in the round after a tie at 2-2
C12_Witness ==
    /\ RoundResolved
    /\ rounds = 6
    /\ ties = 1
    /\ game.round_winner = "user"
    /\ game.user_score = 3
    /\ game.opponent_score = 2
    /\ game.grand_winner = "user"
    /\ ~ game.tiebreaker_round

\* C13: the round counter is 1 in a fresh match state and is one more than
\* the number of rounds resolved so far, tied or not, in every state; so
\* nothing but a resolved round moves it.
C13_RoundCounterCountsRounds ==
    /\ game.current_round = rounds + 1
    /\ game.current_round >= 1
    /\ (rounds = 0) => (game = create_game)

\* two tied rounds and a won one: the counter stands at 4
C13_Witness ==
    /\ RoundResolved
    /\ rounds = 3
    /\ ties = 2
    /\ game.user_score = 1
    /\ game.current_round = 4

\* C14: a process_round call that does not complete, because a move is not
\* in the catalog or because the state is terminal, leaves every field of
\* the match state, current_round included, as it was before the call.
C14_NoPartialUpdate ==
    [][(rounds' = rounds + 1 /\ (pc' = "crashed" \/ Truthy(game.grand_winner)))
          => (game'.current_round = game.current_round /\ game' = game)]_vars

\* C15: a resolved round changes exactly the score its outcome names, by
\* exactly 1: the user's on a win of the user, the opponent's on a win of
\* the opponent, neither on a tie; round_winner records that outcome.
C15_OnlyNamedScoreChanges ==
    [][(rounds' = rounds + 1) =>
          LET outcome == determine_round_winner(user_move', opponent_move') IN
          /\ game'.round_winner = outcome
          /\ outcome \in {"user", opponent_name, None}
          /\ (outcome = "user") =>
                 /\ game'.user_score = game.user_score + 1
                 /\ game'.opponent_score = game.opponent_score
          /\ (outcome = opponent_name) =>
                 /\ game'.opponent_score = game.opponent_score + 1
                 /\ game'.user_score = game.user_score
          /\ (outcome = None) =>
                 /\ game'.user_score = game.user_score
                 /\ game'.opponent_score = game.opponent_score
      ]_vars

\* paper lost to scissor: the opponent's first point, the user still on 0
C15_Witness ==
    /\ RoundResolved
    /\ user_move = paper
    /\ opponent_move = scissor
    /\ rounds = 1
    /\ game.round_winner = opponent_name
    /\ game.opponent_score = 1
    /\ game.user_score = 0

\* C16: a line play_round does not classify as a move reaches neither the
\* resolver nor the controller: it leaves every field of the match state
\* unchanged, no round is resolved, and after the message or the help
\* play_round waits for a move again (or the program has been left by a
\* quit command).
C16_NonMoveLeavesStateAlone ==
    [][/\ (pc = "play_round" /\ input_type' /= "move") =>
              /\ game' = game
              /\ UNCHANGED <<rounds, ties>>
              /\ user_move' = Unbound /\ opponent_move' = Unbound
              /\ pc' = CASE input_type' = "invalid" -> "invalid"
                         [] user_input' \in {help, <<"h">>} -> "help"
                         [] OTHER -> "exited"
       /\ (pc \in {"invalid", "help"}) =>
              /\ game' = game
              /\ UNCHANGED <<rounds, ties>>
              /\ pc' \in {"play_round", "exited"}
      ]_vars

\* after two rounds "banana" was typed: the error message is up, the match
\* state is that of the second round
C16_Witness ==
    /\ pc = "invalid"
    /\ raw_input = banana
    /\ input_type = "invalid"
    /\ rounds = 2
    /\ ties = 1
    /\ game.current_round = 3
    /\ game.user_score = 1

\* the three-branch algorithm: the user's side first, else the
\* opponent's, else a tie
ThreeBranch(um, om) ==
    IF Beats(moves, um, om) THEN "user"
    ELSE IF Beats(moves, om, um) THEN opponent_name
    ELSE None

\* C17: for every pair of catalog moves the resolver returns what the
\* three-branch algorithm returns; rock against scissor is the user's win
\* and rock against spock the opponent's.
C17_ResolverIsThreeBranch ==
    /\ \A a, b \in CanonicalMoves :
         determine_round_winner(a, b) = ThreeBranch(a, b)
    /\ determine_round_winner(rock, scissor) = "user"
    /\ determine_round_winner(rock, spock) = opponent_name
    /\ RoundResolved =>
         (game.round_winner = ThreeBranch(user_move, opponent_move))

\* rock, typed in capitals, lost to spock
C17_Witness ==
    /\ RoundResolved
    /\ raw_input = <<"R","O","C","K">>
    /\ user_move = rock
    /\ opponent_move = spock
    /\ game.round_winner = opponent_name

\* C18: whatever string the opponent's name is, a round the user's move
\* wins adds 1 to user_score only, a round the opponent's move wins adds 1
\* to opponent_score only, and grand_winner names the one side whose score
\* has reached 3.
C18_OutcomesDistinctForAnyName ==
    [][(rounds' = rounds + 1) =>
          /\ Beats(moves, user_move', opponent_move') =>
                 /\ game'.user_score = game.user_score + 1
                 /\ game'.opponent_score = game.opponent_score
          /\ Beats(moves, opponent_move', user_move') =>
                 /\ game'.opponent_score = game.opponent_score + 1
                 /\ game'.user_score = game.user_score
          /\ (game'.user_score >= 3 /\ game'.opponent_score < 3) =>
                 /\ game'.grand_winner = "user"
                 /\ game'.grand_winner /= opponent_name
          /\ (game'.opponent_score >= 3 /\ game'.user_score < 3) =>
                 /\ game'.grand_winner = opponent_name
                 /\ game'.grand_winner /= "user"
                 /\ Truthy(game'.grand_winner)
      ]_vars

\* C19: a match holds at most 5 rounds that are not tied, no round is played
\* once grand_winner is set, and, with a user who keeps entering moves and
\* rounds that are not tied for ever, a match that waits for a move reaches
\* a state with grand_winner set.
C19_MatchEnds ==
    /\ [](/\ rounds - ties <= 5
          /\ Truthy(game.grand_winner) =>
                 pc \in {"round_results", "game_results", "play_again",
                         "welcome_back", "play_game", "exited"})
    /\ [][Truthy(game.grand_winner) => (rounds' = rounds \/ rounds' = 0)]_vars
    /\ (pc = "play_round") ~> Truthy(game.grand_winner)

\* the fifth decided round of a match with a tie in it has ended the match
C19_Witness ==
    /\ pc = "game_results"
    /\ rounds - ties = 5
    /\ ties = 1
    /\ Truthy(game.grand_winner)

====
